---- MODULE Spec2Model ----
(***************************************************************************)
(* Model of bunny's download job manager (src/src/bunny/downloader.py).    *)
(*                                                                         *)
(* ModelDownloader keeps DownloadJob objects in a dict guarded by          *)
(* jobs_lock.  Every registry method runs wholly under that lock and is    *)
(* one action here.  A worker thread (_download_worker) never takes the    *)
(* lock: it is modelled statement by statement, the label of each step     *)
(* being the source line it executes, so that its reads and writes of the  *)
(* job object interleave with the registry methods and with other workers. *)
(* The endpoints of src/src/bunny/web_manager.py that create or cancel     *)
(* jobs are actions over the same registry.                                *)
(***************************************************************************)
EXTENDS Integers, Sequences, FiniteSets, TLC

(* ---- bounds ---- *)
MaxLoad == 3        \* create_job calls plus threads spawned by start_download
RemoteLen == 2      \* length of the remote file, in 64 KiB chunks
MaxFaults == 1      \* I/O failures the environment injects (see Fault)
MaxFree == 3        \* free space the volume may report, in chunks (0..MaxFree)
MaxAge == 2         \* largest max_age passed to cleanup_old_jobs, in clock ticks

(* ---- program constants ---- *)
max_attempts == 4

None == 0                       \* Python None for timestamps
NoFile == <<-1>>                \* a path that does not exist
NoErr == "None"                 \* job.error is None
NoPath == "None"                \* job.path is None
NoSize == -1                    \* job.size is None

Terminal == {"done", "failed", "cancelled"}
Active == {"queued", "running"}

\* the job_id arguments callers pass: every key in use, and unknown ones
JobIds == 1..MaxLoad

\* the remote content: chunk i of the file is the value i
Remote == [i \in 1..RemoteLen |-> i]

VARIABLES
    jobs,       \* every DownloadJob object created so far, by job_id
    registry,   \* the keys of ModelDownloader.jobs
    workers,    \* the threads spawned by start_download, in spawn order
    clock,      \* the value the next time.time() returns
    part,       \* content of <filename>.part, or NoFile
    final,      \* content of <filename>, or NoFile
    cb,         \* per job: how often status_callback ran with each value
    sleeps,     \* per worker: the time.sleep(backoff) delays, in order
    slots,      \* how many more jobs or threads the callers may create
    faults      \* how many more I/O failures the environment may inject

vars == <<jobs, registry, workers, clock, part, final, cb, sleeps, slots, faults>>

W == DOMAIN workers

(* DownloadJob.__init__; callbacks stands for progress_callback and
   status_callback (lines 46-47), which the caller attaches: "quiet" ones
   always return, "raising" ones may raise an exception when called *)
DownloadJob ==
    [status |-> "queued", started_at |-> None, finished_at |-> None,
     error |-> NoErr, downloaded |-> 0, size |-> NoSize, path |-> NoPath,
     cancel |-> FALSE, callbacks |-> "quiet"]

NoCalls == [s \in {"running", "done", "failed", "cancelled"} |-> 0]

Init ==
    /\ jobs = <<>>
    /\ registry = {}
    /\ workers = <<>>
    /\ clock = 1
    /\ part \in {NoFile} \cup {SubSeq(Remote, 1, n) : n \in 0..RemoteLen}
    /\ final = NoFile
    /\ cb = <<>>
    /\ sleeps = <<>>
    /\ slots = MaxLoad
    /\ faults = MaxFaults

(* ------------------------------------------------------------------ *)
(* Registry methods: each runs under jobs_lock, one action per call.    *)
(* ------------------------------------------------------------------ *)


(* a create_job that hands out again the identifier of a removed job *)
CreateJob_reuse_id ==
    /\ slots > 0
    /\ slots' = slots - 1
    /\ IF DOMAIN jobs \ registry # {}
       THEN LET job_id == CHOOSE id \in DOMAIN jobs \ registry : TRUE IN
            /\ jobs' = [jobs EXCEPT ![job_id] = DownloadJob]
            /\ registry' = registry \cup {job_id}
            /\ cb' = [cb EXCEPT ![job_id] = NoCalls]
       ELSE /\ jobs' = Append(jobs, DownloadJob)
            /\ registry' = registry \cup {Len(jobs) + 1}
            /\ cb' = Append(cb, NoCalls)
    /\ UNCHANGED <<workers, clock, part, final, sleeps, faults>>

(* create_job: uuid4 is modelled as the next unused identifier, which is
   also what the call returns *)
CreateJob ==
    /\ slots > 0
    /\ slots' = slots - 1
    /\ LET job_id == Len(jobs) + 1 IN
        /\ jobs' = Append(jobs, DownloadJob)
        /\ registry' = registry \cup {job_id}
        /\ cb' = Append(cb, NoCalls)
    /\ UNCHANGED <<workers, clock, part, final, sleeps, faults>>

(* get_job, get_all_jobs, get_active_jobs: what a poller reads *)
get_job(job_id) ==
    IF job_id \in registry THEN jobs[job_id] ELSE None

get_all_jobs == {j \in registry : TRUE}

get_active_jobs == {j \in registry : jobs[j].status \in {"queued", "running"}}

(* cancel_job without its status test: it would cancel a finished job *)
cancel_job_any_status(job_id) ==
    job_id \in registry

(* cancel_job: what the call returns, and the call *)
cancel_job(job_id) ==
    job_id \in registry /\ jobs[job_id].status \in {"queued", "running"}

CancelJob(job_id) ==
    /\ IF cancel_job(job_id)
       THEN /\ jobs' = [jobs EXCEPT ![job_id].cancel = TRUE,
                                    ![job_id].status = "cancelled",
                                    ![job_id].finished_at = clock]
            /\ clock' = clock + 1
       ELSE UNCHANGED <<jobs, clock>>
    /\ UNCHANGED <<registry, workers, part, final, cb, sleeps, slots, faults>>

(* a remove_job that tests only that the job exists *)
remove_job_any_status(job_id) == job_id \in registry

(* remove_job: what the call returns, and the call *)
remove_job(job_id) ==
    job_id \in registry /\ jobs[job_id].status \in {"done", "failed", "cancelled"}

RemoveJob(job_id) ==
    /\ IF remove_job(job_id)
       THEN registry' = registry \ {job_id}
       ELSE UNCHANGED registry
    /\ UNCHANGED <<jobs, workers, clock, part, final, cb, sleeps, slots, faults>>

(* a sweep that looks at the age of a job but not at its status *)
to_remove_any_status(max_age) ==
    {job_id \in registry :
        /\ jobs[job_id].finished_at # None
        /\ jobs[job_id].finished_at < clock - max_age}

(* cleanup_old_jobs, lines 119-124: the ids collected in to_remove, for
   cutoff_time = time.time() - max_age (line 115; max_age in clock ticks).
   'job.finished_at and ...' is false for None *)
to_remove(max_age) ==
    {job_id \in registry :
        /\ jobs[job_id].status \in {"done", "failed", "cancelled"}
        /\ jobs[job_id].finished_at # None
        /\ jobs[job_id].finished_at < clock - max_age}

(* cleanup_old_jobs: what the call returns (removed_count), and the call.
   The clock read of line 115 returns the current time without advancing
   it *)
cleanup_old_jobs(max_age) == Cardinality(to_remove(max_age))

CleanupOldJobs(max_age) ==
    /\ registry' = registry \ to_remove(max_age)
    /\ UNCHANGED <<jobs, workers, clock, part, final, cb, sleeps, slots, faults>>

(* what the size probe of _check_disk_space (lines 219-224) gave: the
   request raised, raise_for_status raised on an error status, the answer had
   no content-length, or it had one and disk_usage reported `free`; "none"
   outside the call *)
ProbeOutcomes == {"raised", "error_status", "no_length", "length"}

NoProbe == [outcome |-> "none", free |-> 0]

(* a thread about to run _download_worker(job); runs counts its calls of
   _download_with_resume (line 193); probe holds the locals of the
   _check_disk_space call whose result line 178 tests *)
Thread(job_id) ==
    [job |-> job_id, pc |-> "L144", attempt |-> 0, resume_from |-> 0, got |-> 0,
     fh |-> "closed", exc |-> NoErr, runs |-> 0, probe |-> NoProbe]

(* a start_download that tests only that the job exists *)
start_download_any_status(job_id) == job_id \in registry

(* start_download: what the call returns, and the call: the status test
   under the lock, then Thread(...).start() *)
start_download(job_id) ==
    ~(~(job_id \in registry) \/ jobs[job_id].status # "queued")

StartDownload(job_id) ==
    /\ IF start_download(job_id)
       THEN /\ slots > 0
            /\ slots' = slots - 1
            /\ workers' = Append(workers, Thread(job_id))
            /\ sleeps' = Append(sleeps, <<>>)
       ELSE UNCHANGED <<workers, sleeps, slots>>
    /\ UNCHANGED <<jobs, registry, clock, part, final, cb, faults>>

(* ------------------------------------------------------------------ *)
(* The web endpoints (src/src/bunny/web_manager.py) that change the     *)
(* registry.  Every job has the one destination the model holds (part   *)
(* and final), so a retry job has the destination of the original.      *)
(* ------------------------------------------------------------------ *)

(* a retry endpoint that tests only that the job exists *)
pull_retry_any_status(job_id) == job_id \in registry

(* pull_retry, lines 287-291: whether the endpoint goes on to create a job:
   the job is found and its status is failed or cancelled *)
pull_retry(job_id) ==
    job_id \in registry /\ ~(jobs[job_id].status \notin {"failed", "cancelled"})

(* pull_retry, lines 283-305: the 404 and the ok = False answer change
   nothing; else create_job (line 299) for the same model, repository and
   file, and start_download of the new job (line 302), which is queued and
   registered, so a thread is spawned *)
PullRetry(job_id) ==
    /\ IF pull_retry(job_id)
       THEN /\ slots > 1
            /\ slots' = slots - 2
            /\ LET new_job_id == Len(jobs) + 1 IN
                /\ jobs' = Append(jobs, DownloadJob)
                /\ registry' = registry \cup {new_job_id}
                /\ cb' = Append(cb, NoCalls)
                /\ workers' = Append(workers, Thread(new_job_id))
                /\ sleeps' = Append(sleeps, <<>>)
       ELSE UNCHANGED <<jobs, registry, cb, workers, sleeps, slots>>
    /\ UNCHANGED <<clock, part, final, faults>>

(* delete_download, lines 395-401: whether the endpoint answers ok (else
   404), and the call: cancel_job and nothing else *)
delete_download(job_id) == cancel_job(job_id)

DeleteDownload(job_id) == CancelJob(job_id)

(* ------------------------------------------------------------------ *)
(* The worker thread.  A step is named after the first source line it   *)
(* runs.  A step holds at most one read or write of the job object or   *)
(* of a file; statements on the thread's locals, and the network calls, *)
(* are folded into the step they follow or precede.                     *)
(* ------------------------------------------------------------------ *)

At(w, pc) == workers[w].pc = pc

Job(w) == workers[w].job

Goto(w, pc) == workers' = [workers EXCEPT ![w].pc = pc]

(* if job.status_callback: job.status_callback(status).  cb counts the
   calls a job's callback receives when the caller has set one. *)
StatusCallback(job_id, status) ==
    cb' = [cb EXCEPT ![job_id][status] = @ + 1]

(* an I/O call fails, as often as the environment's budget allows *)
Fault == /\ faults > 0
         /\ faults' = faults - 1

(* _download_worker, line 144: job.status = "running" *)
Worker_L144(w) ==
    /\ At(w, "L144")
    /\ jobs' = [jobs EXCEPT ![Job(w)].status = "running"]
    /\ Goto(w, "L145")
    /\ UNCHANGED <<registry, clock, part, final, cb, sleeps, slots, faults>>

(* line 145: job.started_at = time.time() *)
Worker_L145(w) ==
    /\ At(w, "L145")
    /\ jobs' = [jobs EXCEPT ![Job(w)].started_at = clock]
    /\ clock' = clock + 1
    /\ Goto(w, "L147")
    /\ UNCHANGED <<registry, part, final, cb, sleeps, slots, faults>>

(* a call of one of the job's callbacks raises *)
Raises(job_id) == jobs[job_id].callbacks = "raising"

(* lines 147-148: status_callback("running"), outside the try of line 150:
   an exception of the callback ends the thread *)
Worker_L147(w) ==
    /\ At(w, "L147")
    /\ StatusCallback(Job(w), "running")
    /\ \/ Goto(w, "L164")
       \/ /\ Raises(Job(w))
          /\ workers' = [workers EXCEPT ![w].exc = "CallbackError", ![w].pc = "end"]
    /\ UNCHANGED <<jobs, registry, clock, part, final, sleeps, slots, faults>>

(* _check_disk_space, lines 222-225, once the probe has reported
   content_length: free_space >= int(content_length) * 1.2 *)
enough_space(content_length, free) == free * 10 >= content_length * 12

(* a disk-space check that is a hard precondition: False unless the probe
   reported a size that fits *)
check_disk_space_strict(probe) ==
    probe.outcome = "length" /\ enough_space(RemoteLen, probe.free)

(* _check_disk_space, lines 215-228: True when the probe fails or reports no
   size (lines 226-228), else the comparison of lines 222-225 *)
check_disk_space(probe) ==
    probe.outcome = "length" => enough_space(RemoteLen, probe.free)

(* the outcomes of one call: the free space is read (line 224) only when the
   probe reported a length *)
Probes ==
    {[outcome |-> o, free |-> 0] : o \in ProbeOutcomes \ {"length"}}
        \cup {[outcome |-> "length", free |-> f] : f \in 0..MaxFree}

(* _perform_download, lines 164-178: the loop test, attempt += 1, and the
   call of _check_disk_space; a probe that makes the check fail is an
   injected fault *)
Perform_L164(w) ==
    /\ At(w, "L164")
    /\ IF workers[w].attempt < max_attempts /\ ~jobs[Job(w)].cancel
       THEN \E probe \in Probes :
               /\ workers' = [workers EXCEPT
                                 ![w].attempt = @ + 1, ![w].probe = probe,
                                 ![w].pc = IF check_disk_space(probe)
                                           THEN "L185" ELSE "L179"]
               /\ IF check_disk_space(probe) THEN UNCHANGED faults ELSE Fault
       ELSE /\ Goto(w, "L207")
            /\ UNCHANGED faults
    /\ UNCHANGED <<jobs, registry, clock, part, final, cb, sleeps, slots>>

(* a disk-space failure that leaves the status as it is *)
Perform_L179_status_kept(w) ==
    /\ At(w, "L179")
    /\ workers' = [workers EXCEPT ![w].probe = NoProbe, ![w].pc = "L180"]
    /\ UNCHANGED <<jobs, registry, clock, part, final, cb, sleeps, slots, faults>>

(* lines 179-182: the disk-space failure *)
Perform_L179(w) ==
    /\ At(w, "L179")
    /\ jobs' = [jobs EXCEPT ![Job(w)].status = "failed"]
    /\ workers' = [workers EXCEPT ![w].probe = NoProbe, ![w].pc = "L180"]
    /\ UNCHANGED <<registry, clock, part, final, cb, sleeps, slots, faults>>

Perform_L180(w) ==
    /\ At(w, "L180")
    /\ jobs' = [jobs EXCEPT ![Job(w)].error = "Insufficient disk space"]
    /\ Goto(w, "L181")
    /\ UNCHANGED <<registry, clock, part, final, cb, sleeps, slots, faults>>

(* a disk-space failure that goes round the loop again instead of
   returning *)
Perform_L181_retry(w) ==
    /\ At(w, "L181")
    /\ jobs' = [jobs EXCEPT ![Job(w)].finished_at = clock]
    /\ clock' = clock + 1
    /\ Goto(w, "L164")
    /\ UNCHANGED <<registry, part, final, cb, sleeps, slots, faults>>

Perform_L181(w) ==
    /\ At(w, "L181")
    /\ jobs' = [jobs EXCEPT ![Job(w)].finished_at = clock]
    /\ clock' = clock + 1
    /\ Goto(w, "end")
    /\ UNCHANGED <<registry, part, final, cb, sleeps, slots, faults>>

(* lines 201-205: except Exception: re-raise on the last attempt (to line
   152), else time.sleep(2 ** (attempt - 1)) and continue *)
Caught(w, e) ==
    IF workers[w].attempt >= max_attempts
    THEN /\ workers' = [workers EXCEPT ![w].exc = e, ![w].probe = NoProbe,
                                       ![w].pc = "L153"]
         /\ UNCHANGED sleeps
    ELSE /\ workers' = [workers EXCEPT ![w].probe = NoProbe, ![w].pc = "L164"]
         /\ sleeps' = [sleeps EXCEPT ![w] = Append(@, 2 ^ (workers[w].attempt - 1))]

(* the response to the GET of line 238 for a given offset: a server that
   honours Range answers 416 when the offset is not inside the file, and
   raise_for_status raises *)
RangeNotSatisfiable(resume_from) == resume_from > 0 /\ resume_from >= RemoteLen

(* lines 185-190: resume_from = size of the staging file, if it exists; the
   stat may raise OSError, which the except of line 201 catches.
   _download_with_resume (called at line 193), lines 233-239: the GET,
   which may fail *)
Perform_L185(w) ==
    /\ At(w, "L185")
    /\ LET resume_from == IF part # NoFile THEN Len(part) ELSE 0 IN
       \/ /\ ~RangeNotSatisfiable(resume_from)
          /\ workers' = [workers EXCEPT ![w].resume_from = resume_from,
                                        ![w].got = 0, ![w].runs = @ + 1, ![w].probe = NoProbe, ![w].pc = "L244"]
          /\ UNCHANGED <<faults, sleeps>>
       \/ /\ RangeNotSatisfiable(resume_from)
          /\ workers' = [workers EXCEPT ![w].resume_from = resume_from,
                                        ![w].got = 0, ![w].runs = @ + 1, ![w].probe = NoProbe,
                                        ![w].exc = "416 Range Not Satisfiable",
                                        ![w].pc = "L268"]
          /\ UNCHANGED <<faults, sleeps>>
       \/ /\ ~RangeNotSatisfiable(resume_from)
          /\ Fault
          /\ workers' = [workers EXCEPT ![w].resume_from = resume_from,
                                        ![w].got = 0, ![w].runs = @ + 1, ![w].probe = NoProbe,
                                        ![w].exc = "ConnectionError",
                                        ![w].pc = "L268"]
          /\ UNCHANGED sleeps
       \/ /\ Fault
          /\ Caught(w, "OSError")
    /\ UNCHANGED <<jobs, registry, clock, part, final, cb, slots>>

(* lines 242-244: job.size = resume_from + content-length *)
Resume_L244(w) ==
    /\ At(w, "L244")
    /\ jobs' = [jobs EXCEPT ![Job(w)].size =
                    workers[w].resume_from + (RemoteLen - workers[w].resume_from)]
    /\ Goto(w, "L248")
    /\ UNCHANGED <<registry, clock, part, final, cb, sleeps, slots, faults>>

(* lines 247-248: open(part_path, 'ab' if resume_from else 'wb') *)
Resume_L248(w) ==
    /\ At(w, "L248")
    /\ part' = IF workers[w].resume_from = 0 \/ part = NoFile THEN <<>> ELSE part
    /\ workers' = [workers EXCEPT ![w].fh = "part", ![w].pc = "L249"]
    /\ UNCHANGED <<jobs, registry, clock, final, cb, sleeps, slots, faults>>

(* a streaming loop without the cancel test of lines 250-251 *)
Resume_L249_no_cancel_test(w) ==
    /\ At(w, "L249")
    /\ IF workers[w].resume_from + workers[w].got < RemoteLen
       THEN \/ /\ Goto(w, "L254")
               /\ UNCHANGED faults
            \/ /\ Fault
               /\ workers' = [workers EXCEPT ![w].fh = "closed",
                                             ![w].exc = "ConnectionError",
                                             ![w].pc = "L268"]
       ELSE /\ workers' = [workers EXCEPT ![w].fh = "closed", ![w].pc = "L261"]
            /\ UNCHANGED faults
    /\ UNCHANGED <<jobs, registry, clock, part, final, cb, sleeps, slots>>

(* lines 249-251: the next chunk of the body arrives (or the read fails, or
   the body is exhausted), then the cancel flag is tested *)
Resume_L249(w) ==
    /\ At(w, "L249")
    /\ IF workers[w].resume_from + workers[w].got < RemoteLen
       THEN \/ /\ IF jobs[Job(w)].cancel
                  THEN workers' = [workers EXCEPT ![w].fh = "closed", ![w].pc = "L164"]
                  ELSE Goto(w, "L254")
               /\ UNCHANGED faults
            \/ /\ Fault
               /\ workers' = [workers EXCEPT ![w].fh = "closed",
                                             ![w].exc = "ConnectionError",
                                             ![w].pc = "L268"]
       ELSE /\ workers' = [workers EXCEPT ![w].fh = "closed", ![w].pc = "L261"]
            /\ UNCHANGED faults
    /\ UNCHANGED <<jobs, registry, clock, part, final, cb, sleeps, slots>>

(* a write of chunk c at offset pos of a file; a gap reads as zeros *)
WriteAt(f, pos, c) ==
    IF pos < Len(f)
    THEN [f EXCEPT ![pos + 1] = c]
    ELSE f \o [i \in 1..(pos - Len(f)) |-> 0] \o <<c>>

(* line 254: f.write(chunk), through the handle opened at line 248: at the
   end of the file in append mode, at the handle's own offset otherwise *)
Resume_L254(w) ==
    /\ At(w, "L254")
    /\ LET chunk == Remote[workers[w].resume_from + workers[w].got + 1]
           Written(f) == IF workers[w].resume_from > 0
                         THEN Append(f, chunk)
                         ELSE WriteAt(f, workers[w].got, chunk)
       IN  /\ part' = IF workers[w].fh = "part" THEN Written(part) ELSE part
           /\ final' = IF workers[w].fh = "final" THEN Written(final) ELSE final
    /\ workers' = [workers EXCEPT ![w].got = @ + 1, ![w].pc = "L255"]
    /\ UNCHANGED <<jobs, registry, clock, cb, sleeps, slots, faults>>

(* lines 255-258: job.downloaded += len(chunk), then progress_callback;
   an exception of the callback leaves the with block, which closes the
   file, and is caught at line 267 *)
Resume_L255(w) ==
    /\ At(w, "L255")
    /\ jobs' = [jobs EXCEPT ![Job(w)].downloaded = @ + 1]
    /\ \/ Goto(w, "L249")
       \/ /\ Raises(Job(w))
          /\ workers' = [workers EXCEPT ![w].fh = "closed",
                                        ![w].exc = "CallbackError", ![w].pc = "L268"]
    /\ UNCHANGED <<registry, clock, part, final, cb, sleeps, slots, faults>>

(* line 261: shutil.move(part_path, final_path); handles opened on either
   file follow the file, not the name *)
Resume_L261(w) ==
    /\ At(w, "L261")
    /\ IF part = NoFile
       THEN /\ workers' = [workers EXCEPT ![w].exc = "FileNotFoundError",
                                          ![w].pc = "L268"]
            /\ UNCHANGED <<part, final>>
       ELSE /\ final' = part
            /\ part' = NoFile
            /\ workers' = [v \in W |->
                  IF v = w THEN [workers[v] EXCEPT !.pc = "L262"]
                  ELSE IF workers[v].fh = "part" THEN [workers[v] EXCEPT !.fh = "final"]
                  ELSE IF workers[v].fh = "final" THEN [workers[v] EXCEPT !.fh = "gone"]
                  ELSE workers[v]]
    /\ UNCHANGED <<jobs, registry, clock, cb, sleeps, slots, faults>>

(* line 262: job.downloaded = final_path.stat().st_size *)
Resume_L262(w) ==
    /\ At(w, "L262")
    /\ jobs' = [jobs EXCEPT ![Job(w)].downloaded = Len(final)]
    /\ Goto(w, "L263")
    /\ UNCHANGED <<registry, clock, part, final, cb, sleeps, slots, faults>>

(* lines 263-265: job.size = job.downloaded; return True *)
Resume_L263(w) ==
    /\ At(w, "L263")
    /\ jobs' = [jobs EXCEPT ![Job(w)].size = jobs[Job(w)].downloaded]
    /\ Goto(w, "L194")
    /\ UNCHANGED <<registry, clock, part, final, cb, sleeps, slots, faults>>

(* lines 267-269: except Exception: job.error = str(e); return False *)
Resume_L268(w) ==
    /\ At(w, "L268")
    /\ jobs' = [jobs EXCEPT ![Job(w)].error = workers[w].exc]
    /\ workers' = [workers EXCEPT ![w].exc = NoErr, ![w].pc = "L164"]
    /\ UNCHANGED <<registry, clock, part, final, cb, sleeps, slots, faults>>

(* _perform_download, lines 194-199: the attempt returned True *)
Perform_L194(w) ==
    /\ At(w, "L194")
    /\ jobs' = [jobs EXCEPT ![Job(w)].status = "done"]
    /\ Goto(w, "L195")
    /\ UNCHANGED <<registry, clock, part, final, cb, sleeps, slots, faults>>

Perform_L195(w) ==
    /\ At(w, "L195")
    /\ jobs' = [jobs EXCEPT ![Job(w)].finished_at = clock]
    /\ clock' = clock + 1
    /\ Goto(w, "L196")
    /\ UNCHANGED <<registry, part, final, cb, sleeps, slots, faults>>

Perform_L196(w) ==
    /\ At(w, "L196")
    /\ jobs' = [jobs EXCEPT ![Job(w)].path = "final_path"]
    /\ Goto(w, "L197")
    /\ UNCHANGED <<registry, clock, part, final, cb, sleeps, slots, faults>>

(* lines 197-199: status_callback("done") and return, inside the try of
   line 168: an exception of the callback is caught at line 201 *)
Perform_L197(w) ==
    /\ At(w, "L197")
    /\ StatusCallback(Job(w), "done")
    /\ \/ /\ Goto(w, "end")
          /\ UNCHANGED sleeps
       \/ /\ Raises(Job(w))
          /\ Caught(w, "CallbackError")
    /\ UNCHANGED <<jobs, registry, clock, part, final, slots, faults>>

(* an exit of the loop that does not look at the cancel flag *)
Perform_L207_no_cancel_test(w) ==
    /\ At(w, "L207")
    /\ Goto(w, "L211")
    /\ UNCHANGED <<jobs, registry, clock, part, final, cb, sleeps, slots, faults>>

(* line 207: if job.cancel *)
Perform_L207(w) ==
    /\ At(w, "L207")
    /\ IF jobs[Job(w)].cancel THEN Goto(w, "L208") ELSE Goto(w, "L211")
    /\ UNCHANGED <<jobs, registry, clock, part, final, cb, sleeps, slots, faults>>

Perform_L208(w) ==
    /\ At(w, "L208")
    /\ jobs' = [jobs EXCEPT ![Job(w)].status = "cancelled"]
    /\ Goto(w, "L209")
    /\ UNCHANGED <<registry, clock, part, final, cb, sleeps, slots, faults>>

Perform_L209(w) ==
    /\ At(w, "L209")
    /\ jobs' = [jobs EXCEPT ![Job(w)].finished_at = clock]
    /\ clock' = clock + 1
    /\ Goto(w, "end")
    /\ UNCHANGED <<registry, part, final, cb, sleeps, slots, faults>>

Perform_L211(w) ==
    /\ At(w, "L211")
    /\ jobs' = [jobs EXCEPT ![Job(w)].status = "failed"]
    /\ Goto(w, "L212")
    /\ UNCHANGED <<registry, clock, part, final, cb, sleeps, slots, faults>>

Perform_L212(w) ==
    /\ At(w, "L212")
    /\ jobs' = [jobs EXCEPT ![Job(w)].error = "Max attempts exceeded"]
    /\ Goto(w, "L213")
    /\ UNCHANGED <<registry, clock, part, final, cb, sleeps, slots, faults>>

Perform_L213(w) ==
    /\ At(w, "L213")
    /\ jobs' = [jobs EXCEPT ![Job(w)].finished_at = clock]
    /\ clock' = clock + 1
    /\ Goto(w, "end")
    /\ UNCHANGED <<registry, part, final, cb, sleeps, slots, faults>>

(* _download_worker, lines 152-157: the exception of the last attempt *)
Worker_L153(w) ==
    /\ At(w, "L153")
    /\ jobs' = [jobs EXCEPT ![Job(w)].status = "failed"]
    /\ Goto(w, "L154")
    /\ UNCHANGED <<registry, clock, part, final, cb, sleeps, slots, faults>>

Worker_L154(w) ==
    /\ At(w, "L154")
    /\ jobs' = [jobs EXCEPT ![Job(w)].error = workers[w].exc]
    /\ workers' = [workers EXCEPT ![w].exc = NoErr, ![w].pc = "L155"]
    /\ UNCHANGED <<registry, clock, part, final, cb, sleeps, slots, faults>>

Worker_L155(w) ==
    /\ At(w, "L155")
    /\ jobs' = [jobs EXCEPT ![Job(w)].finished_at = clock]
    /\ clock' = clock + 1
    /\ Goto(w, "L156")
    /\ UNCHANGED <<registry, part, final, cb, sleeps, slots, faults>>

(* lines 156-157: status_callback("failed"), the last statement of the
   thread, which ends whether the callback returns or raises *)
Worker_L156(w) ==
    /\ At(w, "L156")
    /\ StatusCallback(Job(w), "failed")
    /\ Goto(w, "end")
    /\ UNCHANGED <<jobs, registry, clock, part, final, sleeps, slots, faults>>

(* one statement of thread w *)
WorkerStep(w) ==
    /\ w \in W
    /\ \/ Worker_L144(w)
       \/ Worker_L145(w)
       \/ Worker_L147(w)
       \/ Perform_L164(w)
       \/ Perform_L179(w)
       \/ Perform_L180(w)
       \/ Perform_L181(w)
       \/ Perform_L185(w)
       \/ Resume_L244(w)
       \/ Resume_L248(w)
       \/ Resume_L249(w)
       \/ Resume_L254(w)
       \/ Resume_L255(w)
       \/ Resume_L261(w)
       \/ Resume_L262(w)
       \/ Resume_L263(w)
       \/ Resume_L268(w)
       \/ Perform_L194(w)
       \/ Perform_L195(w)
       \/ Perform_L196(w)
       \/ Perform_L197(w)
       \/ Perform_L207(w)
       \/ Perform_L208(w)
       \/ Perform_L209(w)
       \/ Perform_L211(w)
       \/ Perform_L212(w)
       \/ Perform_L213(w)
       \/ Worker_L153(w)
       \/ Worker_L154(w)
       \/ Worker_L155(w)
       \/ Worker_L156(w)

Next ==
    \/ CreateJob
    \/ \E job_id \in JobIds : StartDownload(job_id)
    \/ \E job_id \in JobIds : CancelJob(job_id)
    \/ \E job_id \in JobIds : RemoveJob(job_id)
    \/ \E max_age \in 0..MaxAge : CleanupOldJobs(max_age)
    \/ \E job_id \in JobIds : PullRetry(job_id)
    \/ \E job_id \in JobIds : DeleteDownload(job_id)
    \/ \E w \in W : Worker_L144(w)
    \/ \E w \in W : Worker_L145(w)
    \/ \E w \in W : Worker_L147(w)
    \/ \E w \in W : Perform_L164(w)
    \/ \E w \in W : Perform_L179(w)
    \/ \E w \in W : Perform_L180(w)
    \/ \E w \in W : Perform_L181(w)
    \/ \E w \in W : Perform_L185(w)
    \/ \E w \in W : Resume_L244(w)
    \/ \E w \in W : Resume_L248(w)
    \/ \E w \in W : Resume_L249(w)
    \/ \E w \in W : Resume_L254(w)
    \/ \E w \in W : Resume_L255(w)
    \/ \E w \in W : Resume_L261(w)
    \/ \E w \in W : Resume_L262(w)
    \/ \E w \in W : Resume_L263(w)
    \/ \E w \in W : Resume_L268(w)
    \/ \E w \in W : Perform_L194(w)
    \/ \E w \in W : Perform_L195(w)
    \/ \E w \in W : Perform_L196(w)
    \/ \E w \in W : Perform_L197(w)
    \/ \E w \in W : Perform_L207(w)
    \/ \E w \in W : Perform_L208(w)
    \/ \E w \in W : Perform_L209(w)
    \/ \E w \in W : Perform_L211(w)
    \/ \E w \in W : Perform_L212(w)
    \/ \E w \in W : Perform_L213(w)
    \/ \E w \in W : Worker_L153(w)
    \/ \E w \in W : Worker_L154(w)
    \/ \E w \in W : Worker_L155(w)
    \/ \E w \in W : Worker_L156(w)

Spec == Init /\ [][Next]_vars

(* the downloader constructed over a models directory where an earlier run
   left a staging file: one chunk of the remote content, or all of it (the
   move of line 261 never happened) *)
FairInit == Init /\ part \in {<<1>>, Remote}

(* the same program with every thread scheduled fairly: a thread that can
   run a statement eventually does (the network calls of lines 219 and 238
   carry timeouts, and the sleep of line 204 ends) *)
FairSpec == FairInit /\ [][Next]_vars /\ \A w \in 1..MaxLoad : WF_vars(WorkerStep(w))

(* a complete file of the same length as the remote one, fetched earlier:
   chunk i of it is the value 10 + i *)
Previous == [i \in 1..RemoteLen |-> 10 + i]

(* the downloader constructed over a models directory that already holds the
   complete final file *)
ExistingInit ==
    /\ jobs = <<>>
    /\ registry = {}
    /\ workers = <<>>
    /\ clock = 1
    /\ part \in {NoFile} \cup {SubSeq(Remote, 1, n) : n \in 0..RemoteLen}
    /\ final = Previous
    /\ cb = <<>>
    /\ sleeps = <<>>
    /\ slots = MaxLoad
    /\ faults = MaxFaults

ExistingSpec == ExistingInit /\ [][Next]_vars

(* the web manager after one POST /api/models/pull (pull_model, lines
   214-254: create_job, then start_download of the new job): job 1 is queued
   and its thread is spawned; the budget left allows one retry *)
WebInit ==
    /\ jobs = <<DownloadJob>>
    /\ registry = {1}
    /\ workers = <<Thread(1)>>
    /\ clock = 1
    /\ part \in {NoFile} \cup {SubSeq(Remote, 1, n) : n \in 0..RemoteLen}
    /\ final = NoFile
    /\ cb = <<NoCalls>>
    /\ sleeps = << <<>> >>
    /\ slots = MaxLoad - 1
    /\ faults = MaxFaults

(* the jobs driven through the web API only: its endpoints never call
   start_download on a job a second time, nor remove_job *)
WebNext ==
    \/ \E job_id \in JobIds : PullRetry(job_id)
    \/ \E job_id \in JobIds : DeleteDownload(job_id)
    \/ \E w \in W : WorkerStep(w)

WebSpec == WebInit /\ [][WebNext]_vars

(* download_model (lines 270-285) called once with callbacks that may raise:
   create_job, the callbacks attached, start_download *)
CallbackInit ==
    /\ jobs = <<[DownloadJob EXCEPT !.callbacks = "raising"]>>
    /\ registry = {1}
    /\ workers = <<Thread(1)>>
    /\ clock = 1
    /\ part \in {NoFile} \cup {SubSeq(Remote, 1, n) : n \in 0..RemoteLen}
    /\ final = NoFile
    /\ cb = <<NoCalls>>
    /\ sleeps = << <<>> >>
    /\ slots = 0
    /\ faults = MaxFaults

(* that job's thread, and the registry calls on the job *)
CallbackNext ==
    \/ \E job_id \in JobIds : CancelJob(job_id)
    \/ \E job_id \in JobIds : RemoveJob(job_id)
    \/ \E w \in W : WorkerStep(w)

CallbackSpec == CallbackInit /\ [][CallbackNext]_vars

(* ------------------------------------------------------------------ *)
(* Properties                                                           *)
(* ------------------------------------------------------------------ *)

J == DOMAIN jobs

WorkersOf(job_id) == {w \in W : workers[w].job = job_id}

(* the edges of queued -> running -> {done, failed, cancelled}, cancel_job's
   queued -> cancelled included *)
StatusEdge(s, t) ==
    \/ s = t
    \/ s = "queued" /\ t \in {"running", "cancelled"}
    \/ s = "running" /\ t \in Terminal

(* C1: a job's status only moves along queued -> running -> {done, failed,
   cancelled}; once it is done, failed or cancelled it never changes. *)
C1_StatusMonotonic ==
    [][\A j \in J : StatusEdge(jobs[j].status, jobs'[j].status)]_vars

(* C2: once a job's cancel flag is true its status is never done. *)
C2_CancelledNeverDone ==
    \A j \in J : jobs[j].cancel => jobs[j].status # "done"

(* C3: at most one start_download call per job returns true, and at most
   one worker thread is ever spawned for a job. *)
C3_AtMostOneWorker ==
    \A j \in J : Cardinality(WorkersOf(j)) <= 1

(* the state cancel_job leaves when it is called on a queued job: no worker
   of the job has run a statement yet *)
CancelledWhileQueued(j) ==
    /\ jobs[j].cancel
    /\ jobs[j].status = "cancelled"
    /\ jobs[j].started_at = None
    /\ cb[j]["running"] = 0
    /\ \A w \in WorkersOf(j) : workers[w].pc = "L144" /\ workers[w].attempt = 0

(* C4: a job cancelled while queued stays as the cancel left it: never
   running, started_at unset, no 'running' callback, no worker of it ever
   runs and no transfer attempt is made. *)
C4_CancelQueuedNeverRuns ==
    [][\A j \in J : CancelledWhileQueued(j) => CancelledWhileQueued(j)']_vars

(* C5: after cancel_job returned true for a job, every read of it through
   the registry sees status cancelled, and get_active_jobs never lists it. *)
C5_CancelledObserved ==
    \A j \in get_all_jobs :
        jobs[j].cancel =>
            /\ get_job(j).status = "cancelled"
            /\ j \notin get_active_jobs

(* C6: cancel_job returns true exactly when the job exists and is queued or
   running, and then leaves cancel true, status cancelled and finished_at
   set; otherwise it returns false and changes no field of any job. *)
C6_CancelJobContract ==
    [][\A id \in JobIds : CancelJob(id) =>
          /\ cancel_job(id) <=> (id \in registry /\ jobs[id].status \in Active)
          /\ cancel_job(id) =>
                /\ jobs'[id].cancel
                /\ jobs'[id].status = "cancelled"
                /\ jobs'[id].finished_at # None
                /\ \A k \in J \ {id} : jobs'[k] = jobs[k]
          /\ ~cancel_job(id) => UNCHANGED <<jobs, registry>>]_vars

(* a running job has just been cancelled by a call that returned true *)
C6_Witness ==
    \E j \in J : /\ jobs[j].cancel
                 /\ jobs[j].status = "cancelled"
                 /\ jobs[j].started_at # None
                 /\ jobs[j].finished_at # None
                 /\ jobs[j].finished_at = clock - 1

(* C7: finished_at is set if and only if the status is terminal. *)
C7_FinishedIffTerminal ==
    \A j \in J : (jobs[j].finished_at # None) <=> (jobs[j].status \in Terminal)

(* C8: path is set if and only if the status is done. *)
C8_PathIffDone ==
    \A j \in J : (jobs[j].path # NoPath) <=> (jobs[j].status = "done")

(* C9: once a job is terminal, neither its status nor its started_at and
   finished_at are written again. *)
C9_OneTerminalTransition ==
    [][\A j \in J : jobs[j].status \in Terminal =>
          /\ jobs'[j].status = jobs[j].status
          /\ jobs'[j].started_at = jobs[j].started_at
          /\ jobs'[j].finished_at = jobs[j].finished_at]_vars

(* every thread spawned for the job has left _download_worker *)
Finished(j) ==
    /\ WorkersOf(j) # {}
    /\ \A w \in WorkersOf(j) : workers[w].pc = "end"

(* C10: a started job whose cancel flag is true ends with status cancelled,
   not failed and not done. *)
C10_CancelledFinalStatus ==
    \A j \in J : (jobs[j].cancel /\ Finished(j)) => jobs[j].status = "cancelled"

(* C11: every job start_download returned true for eventually is done,
   failed or cancelled, when its threads are scheduled fairly. *)
C11_StartedJobTerminates ==
    \A j \in JobIds :
        (j \in J /\ WorkersOf(j) # {}) ~> (j \in J /\ jobs[j].status \in Terminal)

(* a started job is terminal and all its threads have returned *)
C11_Witness ==
    \E j \in J : Finished(j) /\ jobs[j].status \in Terminal

(* C12: while a job is not yet done, failed or cancelled, no step lowers its
   downloaded count, the write of line 262 included. *)
C12_DownloadedMonotonic ==
    [][\A j \in J \cap DOMAIN jobs' :
          jobs[j].status \notin Terminal => jobs'[j].downloaded >= jobs[j].downloaded]_vars

(* C13: the staging file found on disk being a prefix of the remote content
   (Init), whenever a job is done the committed final file is the remote
   content, chunk for chunk. *)
C13_ResumeCorrect ==
    \A j \in J : jobs[j].status = "done" => final = Remote

(* the calls of _download_with_resume made for job job_id so far *)
RECURSIVE SumRuns(_)
SumRuns(S) ==
    IF S = {} THEN 0
    ELSE LET w == CHOOSE v \in S : TRUE IN workers[w].runs + SumRuns(S \ {w})

EngineRuns(job_id) == SumRuns(WorkersOf(job_id))

(* thread w has left the loop of line 164 for want of attempts: lines 211-213,
   or the re-raise of line 203 on its way through lines 153-157 *)
Exhausted(w) ==
    workers[w].pc \in {"L211", "L212", "L213", "L153", "L154", "L155", "L156"}

(* C14: no job has the transfer engine run for it more than max_attempts
   times, and a thread gives the job up as failed for want of attempts only
   after exactly max_attempts attempts. *)
C14_AttemptBudget ==
    /\ \A j \in J : EngineRuns(j) <= max_attempts
    /\ \A w \in W : Exhausted(w) => workers[w].attempt = max_attempts

(* the delays slept before attempts 2..k: 2 ** (attempt - 1) of line 166,
   for attempt = 1..k-1 *)
Backoff(k) == [i \in 1..(k - 1) |-> 2 ^ (i - 1)]

(* C15: a thread that begins attempt k (every earlier attempt of it having
   failed) has slept before each retry, 1, 2, 4 time units in turn, and
   not before the first attempt. *)
C15_BackoffBetweenAttempts ==
    \A w \in W : workers[w].pc = "L185" => sleeps[w] = Backoff(workers[w].attempt)

(* C16: when a thread gives a job up for want of attempts (line 212) and an
   attempt has recorded an error message for the job, that message stays;
   'Max attempts exceeded' is written only when none was recorded. *)
C16_LastErrorKept ==
    [][\A w \in W :
          (At(w, "L212") /\ workers'[w].pc = "L213" /\ jobs[Job(w)].error # NoErr)
              => jobs'[Job(w)].error = jobs[Job(w)].error]_vars

(* the statements of the disk-space failure, lines 179-182 *)
DiskPath == {"L179", "L180", "L181"}

(* C17: a thread whose disk-space check fails marks the job failed with
   'Insufficient disk space', issues no GET, writes nothing to the staging
   or the final file, and returns without another attempt. *)
C17_DiskSpaceGate ==
    [][\A w \in W :
          (workers'[w] # workers[w]
             /\ (workers[w].pc \in DiskPath \/ workers'[w].pc \in DiskPath))
          => /\ part' = part
             /\ final' = final
             /\ workers'[w].runs = workers[w].runs
             /\ workers'[w].pc \in DiskPath \cup {"end"}
             /\ workers[w].pc \in DiskPath => workers'[w].attempt = workers[w].attempt
             /\ workers[w].pc = "L179" => jobs'[Job(w)].status = "failed"
             /\ workers[w].pc = "L180" => jobs'[Job(w)].error = "Insufficient disk space"]_vars

(* a thread has returned from the disk-space failure of its first attempt *)
C17_Witness ==
    \E w \in W : /\ workers[w].pc = "end"
                 /\ workers[w].attempt = 1
                 /\ workers[w].runs = 0
                 /\ jobs[Job(w)].status = "failed"
                 /\ jobs[Job(w)].error = "Insufficient disk space"

(* C18: once the threads of a job have returned and the job is done, failed
   or cancelled, its status callback has been called with that value. *)
C18_TerminalCallback ==
    \A j \in J :
        (Finished(j) /\ jobs[j].status \in Terminal) => cb[j][jobs[j].status] >= 1

(* C19: a job's status callback is called with 'running' once when its work
   begins, never twice, and with each of done, failed and cancelled at most
   once. *)
C19_CallbackOnce ==
    \A j \in J :
        /\ \A s \in DOMAIN cb[j] : cb[j][s] <= 1
        /\ (\E w \in WorkersOf(j) : workers[w].pc \notin {"L144", "L145", "L147"})
               => cb[j]["running"] = 1

(* C20: start_download returns false exactly when the job does not exist or
   is not queued, and then changes no job field, spawns no thread and leaves
   the job map as it was. *)
C20_StartDownloadFrame ==
    [][\A id \in JobIds : StartDownload(id) =>
          /\ ~start_download(id) <=> (id \notin registry \/ jobs[id].status # "queued")
          /\ ~start_download(id) => UNCHANGED <<jobs, registry, workers>>]_vars

(* start_download is refused for a job that was removed and for a job that
   is no longer queued, while a thread could still be spawned *)
C20_Witness ==
    \E j, k \in J : /\ j \notin registry
                    /\ k \in registry
                    /\ jobs[k].status # "queued"
                    /\ ~start_download(j)
                    /\ ~start_download(k)
                    /\ slots > 0

(* C21: remove_job returns true, and deletes the record, exactly when the job
   exists and is done, failed or cancelled; otherwise the job map is
   unchanged; and no step (remove_job or cleanup_old_jobs) takes a queued or
   running job out of the job map. *)
C21_RemoveJobContract ==
    [][/\ \A id \in JobIds : RemoveJob(id) =>
             /\ remove_job(id) <=> (id \in registry /\ jobs[id].status \in Terminal)
             /\ remove_job(id) => registry' = registry \ {id}
             /\ ~remove_job(id) => registry' = registry
       /\ \A j \in registry \ registry' : jobs[j].status \in Terminal]_vars

(* a terminal job has been removed while an active job, which remove_job
   refuses, is still in the job map *)
C21_Witness ==
    \E j, k \in J : /\ j \notin registry
                    /\ jobs[j].status \in Terminal
                    /\ k \in registry
                    /\ jobs[k].status \in Active
                    /\ ~remove_job(k)

(* job j of the job map is terminal and finished more than max_age ago *)
OldTerminal(j, max_age) ==
    /\ jobs[j].status \in Terminal
    /\ jobs[j].finished_at # None
    /\ clock - jobs[j].finished_at > max_age

(* C22: cleanup_old_jobs(max_age) removes exactly the terminal jobs that
   finished more than max_age ago, returns how many it removed, and leaves
   every other job in the job map, and every record, as it was. *)
C22_CleanupExact ==
    [][\A max_age \in 0..MaxAge : CleanupOldJobs(max_age) =>
          /\ registry' = {j \in registry : ~OldTerminal(j, max_age)}
          /\ cleanup_old_jobs(max_age) = Cardinality(registry \ registry')
          /\ jobs' = jobs]_vars

(* an old terminal job is gone from the job map and a younger terminal job
   is still in it *)
C22_Witness ==
    \E j, k \in J : \E max_age \in 0..MaxAge :
        /\ j \notin registry
        /\ OldTerminal(j, max_age)
        /\ k \in registry
        /\ jobs[k].status \in Terminal
        /\ jobs[k].finished_at # None
        /\ ~OldTerminal(k, max_age)

(* C23: a create_job call adds exactly one record, in status queued with
   cancel false, downloaded 0 and no timestamps, path or error, under an
   identifier never used before (removed jobs included), changes no other
   record, and is never refused. *)
C23_CreateJobFresh ==
    [][/\ \A id \in JobIds : (id \in registry' /\ id \notin registry) =>
             /\ id \notin J
             /\ DOMAIN jobs' = J \cup {id}
             /\ registry' = registry \cup {id}
             /\ jobs'[id].status = "queued"
             /\ ~jobs'[id].cancel
             /\ jobs'[id].downloaded = 0
             /\ jobs'[id].started_at = None
             /\ jobs'[id].finished_at = None
             /\ jobs'[id].path = NoPath
             /\ jobs'[id].error = NoErr
             /\ \A k \in J : jobs'[k] = jobs[k]
       /\ slots > 0 => ENABLED CreateJob]_vars

(* a job was created after others, one of which has since been removed *)
C23_Witness ==
    \E j, k \in J : /\ j \notin registry
                    /\ k \in registry
                    /\ k > j
                    /\ jobs[k].status = "queued"
                    /\ jobs[k].started_at = None

(* file f holds some but not all of the remote content, from its start *)
StrictPrefix(f) ==
    /\ f # NoFile
    /\ Len(f) < RemoteLen
    /\ f = SubSeq(Remote, 1, Len(f))

(* thread w is past the streaming loop of an attempt that read the whole
   response, and commits the staging file (line 261) *)
Commits(w) ==
    /\ At(w, "L261")
    /\ workers'[w].pc = "L262"
    /\ workers[w].resume_from + workers[w].got = RemoteLen
    /\ final' = part

(* C24: the final file is created or changed only by the commit of an
   attempt that consumed the whole response (a cancelled or failed attempt
   never touches it), and it never holds a strict prefix of the remote
   content. *)
C24_FinalOnlyOnSuccess ==
    [][/\ final' # final => \E w \in W : Commits(w)
       /\ ~StrictPrefix(final')]_vars

(* C25: a job whose error field is set has status failed. *)
C25_ErrorOnlyOnFailed ==
    \A j \in J : jobs[j].error # NoErr => jobs[j].status = "failed"

(* C26: a job whose status is failed has an error message, and a thread
   that caught the exception of the transfer (lines 152-157) leaves the job
   failed. *)
C26_FailureCaptured ==
    /\ \A j \in J : jobs[j].status = "failed" => jobs[j].error # NoErr
    /\ \A w \in W : workers[w].pc \in {"L154", "L155", "L156"}
                        => jobs[Job(w)].status = "failed"

(* the state fields of a job record: all but the cancel flag *)
StateFields(job) ==
    <<job.status, job.started_at, job.finished_at, job.downloaded, job.size,
      job.path, job.error>>

(* a thread of the job has begun _download_worker (run line 144) *)
Begun(j) == \E w \in WorkersOf(j) : workers[w].pc # "L144"

(* C27: once a job's worker has begun, every step that changes a state
   field of the job is a step of a worker of that job. *)
C27_OnlyWorkerWrites ==
    [][\A j \in J :
          (Begun(j) /\ StateFields(jobs'[j]) # StateFields(jobs[j]))
              => \E w \in WorkersOf(j) : workers'[w] # workers[w]]_vars

(* C28: a start_download call that returns true leaves the job running, so
   that the job is no longer queued when the call returns and a second call
   would be refused. *)
C28_StartMakesRunning ==
    [][\A id \in JobIds : (StartDownload(id) /\ start_download(id)) =>
          jobs'[id].status = "running"]_vars

(* the statements between an attempt that ended on the cancel flag and the
   return of _perform_download: the loop test and lines 207-209 *)
CancelPath == {"L164", "L207", "L208", "L209"}

(* C29: a thread that observes the cancel flag during the stream returns to
   the loop test, and from there, the flag being set, it makes no further
   attempt, does not sleep, writes no error and calls no callback, and
   finalizes the job as cancelled. *)
C29_CancelEndsLoop ==
    [][\A w \in W : workers'[w].pc # workers[w].pc =>
          /\ (At(w, "L249") /\ jobs[Job(w)].cancel
                 /\ workers[w].resume_from + workers[w].got < RemoteLen
                 /\ faults' = faults)
                => workers'[w].pc = "L164"
          /\ (workers[w].pc \in CancelPath /\ jobs[Job(w)].cancel)
                => /\ workers'[w].pc \in (CancelPath \ {"L164"}) \cup {"end"}
                   /\ workers'[w].attempt = workers[w].attempt
                   /\ workers'[w].runs = workers[w].runs
                   /\ sleeps' = sleeps
                   /\ cb' = cb
                   /\ jobs'[Job(w)].error = jobs[Job(w)].error
                   /\ jobs'[Job(w)].status \in {jobs[Job(w)].status, "cancelled"}
                   /\ At(w, "L208") => jobs'[Job(w)].status = "cancelled"]_vars

(* a thread has returned after it observed the cancel flag in the middle of
   the stream of its first attempt: no sleep, no error, status cancelled *)
C29_Witness ==
    \E w \in W : /\ workers[w].pc = "end"
                 /\ workers[w].attempt = 1
                 /\ workers[w].got = 1
                 /\ sleeps[w] = <<>>
                 /\ jobs[Job(w)].cancel
                 /\ jobs[Job(w)].status = "cancelled"
                 /\ jobs[Job(w)].error = NoErr

(* C30: once a job's cancel flag is true it stays true, and a thread of the
   job takes no further chunk past the test of line 250; each chunk taken
   is written once (line 254) and counted once (line 255) before the next
   test.  So after the flag is set a thread writes and counts at most the
   one chunk it had already taken. *)
C30_OneChunkAfterCancel ==
    [][/\ \A j \in J : jobs[j].cancel => jobs'[j].cancel
       /\ \A w \in W : workers'[w].pc # workers[w].pc =>
             /\ (At(w, "L249") /\ jobs[Job(w)].cancel) => workers'[w].pc # "L254"
             /\ workers'[w].pc = "L254" => At(w, "L249")
             /\ At(w, "L254") => /\ workers'[w].pc = "L255"
                                 /\ workers'[w].got = workers[w].got + 1
             /\ workers'[w].pc = "L255" => At(w, "L254")
             /\ At(w, "L255") => /\ workers'[w].pc = "L249"
                                 /\ jobs'[Job(w)].downloaded = jobs[Job(w)].downloaded + 1
             /\ workers'[w].got > workers[w].got => At(w, "L254")]_vars

(* a thread has stopped on the cancel flag with one chunk written and
   counted and the second chunk still to come *)
C30_Witness ==
    \E w \in W : /\ workers[w].pc \in {"L164", "L207", "L208", "L209", "end"}
                 /\ workers[w].resume_from = 0
                 /\ workers[w].got = 1
                 /\ workers[w].attempt = 1
                 /\ jobs[Job(w)].cancel
                 /\ jobs[Job(w)].error = NoErr
                 /\ jobs[Job(w)].downloaded = 1

(* the length of the staging file, 0 when there is none *)
StagingLen == IF part = NoFile THEN 0 ELSE Len(part)

(* C31: an attempt opens the staging file with a resume offset equal to the
   file's length at that moment (append when it is nonzero, truncate only
   when it is zero), so that no step but the commit of line 261 makes the
   staging file shorter. *)
C31_ResumeKeepsBytes ==
    [][/\ \A w \in W : (At(w, "L248") /\ workers'[w].pc = "L249")
                            => workers[w].resume_from = StagingLen
       /\ (\A w \in W : ~(At(w, "L261") /\ workers'[w].pc = "L262"))
             => /\ part # NoFile => part' # NoFile
                /\ (part # NoFile /\ part' # NoFile) => Len(part') >= Len(part)]_vars

(* C32: the disk-space check is best-effort: when the size probe raises,
   answers with an error status or gives no content length, the attempt goes
   on to the transfer; the check fails the job only when the probe reported a
   size and the free space is below 1.2 times that size, and only a thread
   that the check stopped writes the error "Insufficient disk space". *)
C32_DiskCheckBestEffort ==
    [][/\ \A w \in W :
            (At(w, "L164") /\ workers'[w].pc # "L164") =>
                LET probe == workers'[w].probe IN
                /\ probe.outcome \in {"raised", "error_status", "no_length"}
                        => workers'[w].pc = "L185"
                /\ workers'[w].pc = "L179"
                        => /\ probe.outcome = "length"
                           /\ probe.free * 10 < RemoteLen * 12
       /\ \A j \in J :
            (jobs'[j].error = "Insufficient disk space" /\ jobs'[j].error # jobs[j].error)
                => \E w \in WorkersOf(j) : At(w, "L180")]_vars

C32_Witness ==
    \E w \in W : /\ At(w, "L185")
                 /\ workers[w].probe.outcome \in {"raised", "error_status", "no_length"}

(* C33: when the final file exists and is complete before a job starts, it
   holds at every moment either that previous content or the complete remote
   content, whatever the job does and however it ends. *)
C33_ExistingFileIntact == final \in {Previous, Remote}

(* C34: the retry endpoint creates and starts a fresh job only when the given
   job is registered and failed or cancelled: it then adds one queued job and
   one thread for it and leaves every existing record, the original's
   included, as it was; for a job in any other state, or an unknown one, it
   creates no job and no thread.  Every job has the same destination, and a
   thread reads its resume offset from the staging file's length. *)
C34_RetryContract ==
    [][/\ \A job_id \in JobIds :
            PullRetry(job_id) =>
                IF job_id \in registry /\ jobs[job_id].status \in {"failed", "cancelled"}
                THEN /\ jobs' = Append(jobs, DownloadJob)
                     /\ jobs'[job_id] = jobs[job_id]
                     /\ registry' = registry \cup {Len(jobs) + 1}
                     /\ workers' = Append(workers, Thread(Len(jobs) + 1))
                ELSE /\ jobs' = jobs
                     /\ registry' = registry
                     /\ workers' = workers
       /\ \A w \in W :
            (At(w, "L185") /\ workers'[w].runs > workers[w].runs)
                => workers'[w].resume_from = StagingLen]_vars

(* a retry has created and started job k for the cancelled or failed job j *)
C34_Witness ==
    \E j, k \in J :
        /\ j < k
        /\ j \in registry /\ jobs[j].status \in {"failed", "cancelled"}
        /\ \E w \in WorkersOf(k) : workers[w].pc = "L244" /\ workers[w].resume_from = StagingLen

(* C35: a DELETE /api/downloads/{job_id} that answers ok has removed the job:
   after it the job is not in the registry, so get_job finds nothing and
   get_all_jobs does not list it. *)
C35_DeleteRemoves ==
    [][\A job_id \in JobIds :
            (delete_download(job_id) /\ DeleteDownload(job_id))
                => /\ job_id \notin registry'
                   /\ job_id \notin get_all_jobs']_vars

(* thread w is in its streaming loop (lines 248-258) with its handle on the
   staging file *)
Streaming(w) ==
    workers[w].fh = "part" /\ workers[w].pc \in {"L249", "L254", "L255"}

(* C36: for jobs driven through the web API, at most one thread at a time is
   streaming into the staging file: the thread of a retry job does not write
   to it while the thread of the cancelled job is still writing to it. *)
C36_OneWriterPerStagingFile ==
    \A v, w \in W : (Streaming(v) /\ Streaming(w)) => v = w

(* C37: once remove_job or cleanup_old_jobs has deleted a job's record, no
   thread of that job is still executing: the removed record is never written
   again and its threads have all left _download_worker. *)
C37_RemovedJobQuiescent ==
    [][\A j \in J \ registry :
          /\ \A w \in WorkersOf(j) : workers[w].pc = "end"
          /\ jobs'[j] = jobs[j]]_vars

(* C38: a job whose thread found the staging file already complete (resume
   offset equal to the remote size, so that the ranged GET is answered 416)
   ends done with the final file equal to the remote content, if it was not
   cancelled and no I/O failure was injected: it does not end failed when its
   attempts are used up. *)
C38_CompleteStagingFileSucceeds ==
    \A w \in W :
        (/\ workers[w].pc = "end"
         /\ workers[w].resume_from = RemoteLen
         /\ ~jobs[Job(w)].cancel
         /\ faults = MaxFaults)
            => /\ jobs[Job(w)].status = "done"
               /\ final = Remote

(* C39: an exception raised by a callback the caller supplied does not change
   the job's outcome: the thread does not end leaving the job running (the
   'running' callback), after a chunk is written and counted the streaming
   loop goes on to the next chunk (the progress callback), and after the
   'done' callback the thread returns and the job stays done. *)
C39_CallbackExceptionsHarmless ==
    [][/\ \A w \in W :
            /\ workers[w].pc = "end" => jobs[Job(w)].status # "running"
            /\ (At(w, "L255") /\ workers'[w].pc # "L255") => workers'[w].pc = "L249"
            /\ (At(w, "L197") /\ workers'[w].pc # "L197") => workers'[w].pc = "end"
       /\ \A j \in J : jobs[j].status = "done" => jobs'[j].status = "done"]_vars

====
